---- MODULE Spec2Model ----
(***************************************************************************)
(* Model of src/png_extractor/sprite_assembler_witch.py: the decoder       *)
(* load_sprite_mesh, the rasterizer render_mesh_subpixel and the loop of   *)
(* process_target that feeds one into the other.                           *)
(*                                                                         *)
(* Numbers.  The program computes in float32; the model computes in exact  *)
(* rationals <<n, d>> (d > 0, lowest terms), so rounding error of the      *)
(* float arithmetic is outside the model.  A float of the vertex buffer is *)
(* written as an integer count of hundredths (F turns it into a rational). *)
(* The float buffer is modelled after np.frombuffer (as its float32        *)
(* elements); the index buffer is modelled as its bytes.                   *)
(***************************************************************************)
EXTENDS Integers, Sequences, FiniteSets

(* ------------------------------ bounds -------------------------------- *)
\* largest vertex count a record declares; MaxVerts itself is an index that
\* is out of range for every vertex layout of the catalogue
MaxVerts == 4
\* largest number of whole triangles in an index buffer
MaxTris == 2
\* largest number of json files in a directory (batch runs)
MaxJobs == 3

(* ------------------------- exact arithmetic --------------------------- *)
Abs(a) == IF a < 0 THEN -a ELSE a
Min2(a, b) == IF a <= b THEN a ELSE b
Max2(a, b) == IF a >= b THEN a ELSE b

RECURSIVE GCD(_, _)
GCD(a, b) == IF b = 0 THEN a ELSE GCD(b, a % b)

\* the rational n/d (d # 0) in lowest terms with a positive denominator
Rat(n, d) ==
  LET g == GCD(Abs(n), Abs(d))
      s == IF d < 0 THEN -1 ELSE 1
  IN  <<(s * n) \div g, (s * d) \div g>>

RInt(i) == <<i, 1>>
\* sums and products cancel common factors first, to keep the integers small
RAdd(a, b) ==
  LET g == GCD(a[2], b[2])
  IN  Rat(a[1] * (b[2] \div g) + b[1] * (a[2] \div g), (a[2] \div g) * b[2])
RNeg(a) == <<-a[1], a[2]>>
RSub(a, b) == RAdd(a, RNeg(b))
RMul(a, b) ==
  LET g == GCD(Abs(a[1]), b[2])
      h == GCD(Abs(b[1]), a[2])
  IN  Rat((a[1] \div g) * (b[1] \div h), (a[2] \div h) * (b[2] \div g))
RDiv(a, b) == RMul(a, IF b[1] < 0 THEN <<-b[2], -b[1]>> ELSE <<b[2], b[1]>>)
RLt(a, b) == a[1] * b[2] < b[1] * a[2]
RLe(a, b) == a[1] * b[2] <= b[1] * a[2]
RAbs(a) == <<Abs(a[1]), a[2]>>
RMin(a, b) == IF RLe(a, b) THEN a ELSE b
RMax(a, b) == IF RLe(a, b) THEN b ELSE a
\* math.floor, math.ceil
RFloor(a) == a[1] \div a[2]
RCeil(a) == -((-a[1]) \div a[2])

\* the value of a float written in hundredths
F(x) == Rat(x, 100)

(* ------------------------------ decoder ------------------------------- *)
\* a[:n] and a[n:] of a one-dimensional array, n >= 0
SliceTo(a, n) == SubSeq(a, 1, Min2(n, Len(a)))
SliceFrom(a, n) == SubSeq(a, Min2(n, Len(a)) + 1, Len(a))

\* variant: a buffer longer than rows * cols is accepted and cut
CanReshapeAtLeast(a, rows, cols) == Len(a) >= rows * cols
\* a.reshape(rows, cols) is possible exactly when the sizes agree
CanReshape(a, rows, cols) == Len(a) = rows * cols
\* variant: column-major (Fortran-order) reshape
ReshapeColumnMajor(a, rows, cols) ==
  [i \in 1..rows |-> [k \in 1..cols |-> a[(k - 1) * rows + i]]]
\* C-order reshape: row i holds elements (i-1)*cols+1 .. i*cols
Reshape(a, rows, cols) ==
  [i \in 1..rows |-> [k \in 1..cols |-> a[(i - 1) * cols + k]]]

\* np.frombuffer(bytes, dtype="<u2"): little-endian 16-bit words; the byte
\* count must be a multiple of the item size
CanFromBufferU2(bytes) == Len(bytes) % 2 = 0
FromBufferU2(bytes) ==
  [i \in 1..(Len(bytes) \div 2) |-> bytes[2 * i - 1] + 256 * bytes[2 * i]]

DefaultPixelsToUnits == 100
\* variant: the default is 1 pixel per unit
GetPixelsToUnitsDefaultOne(jd) ==
  IF jd.m_PixelsToUnits = <<>> THEN 1
  ELSE jd.m_PixelsToUnits[1]
\* jd.get("m_PixelsToUnits", 100); the key's value is <<>> when absent
GetPixelsToUnits(jd) ==
  IF jd.m_PixelsToUnits = <<>> THEN DefaultPixelsToUnits
  ELSE jd.m_PixelsToUnits[1]

\* variant: the UV rows are inferred from the remainder, reshape(-1, 2)
load_sprite_mesh_infer_uv(jd) ==
  LET n == jd.m_VertexCount
      floats == jd.m_Data
      head == SliceTo(floats, n * 3)
      rest == SliceFrom(floats, n * 3)
  IN  IF \/ Len(head) # n * 3
         \/ Len(rest) % 2 # 0
         \/ Len(jd.m_IndexBuffer) % 2 # 0
        THEN [raises |-> "ValueError",
              mesh |-> [pos |-> <<>>, uv |-> <<>>, indices |-> <<>>, pixels_to_units |-> 0]]
        ELSE [raises |-> "none",
              mesh |-> [pos |-> [i \in 1..n |-> SubSeq(head, 3 * i - 2, 3 * i)],
                        uv |-> [i \in 1..(Len(rest) \div 2) |-> SubSeq(rest, 2 * i - 1, 2 * i)],
                        indices |-> [i \in 1..(Len(jd.m_IndexBuffer) \div 2) |->
                                       jd.m_IndexBuffer[2 * i - 1] + 256 * jd.m_IndexBuffer[2 * i]],
                        pixels_to_units |-> IF jd.m_PixelsToUnits = <<>> THEN 100
                                            ELSE jd.m_PixelsToUnits[1]]]

\* what a failed call leaves in place of the returned tuple
NoMesh == [pos |-> <<>>, uv |-> <<>>, indices |-> <<>>, pixels_to_units |-> 0]

\* load_sprite_mesh (lines 26-49): raises is the exception of the first
\* conversion that fails (reshape and frombuffer raise ValueError), or
\* "none"; mesh is the returned tuple
load_sprite_mesh(jd) ==
  LET n == jd.m_VertexCount
      floats == jd.m_Data
      head == SliceTo(floats, n * 3)
      rest == SliceFrom(floats, n * 3)
  IN  IF \/ ~CanReshape(head, n, 3)
         \/ ~CanReshape(rest, n, 2)
         \/ ~CanFromBufferU2(jd.m_IndexBuffer)
        THEN [raises |-> "ValueError", mesh |-> NoMesh]
        ELSE [raises |-> "none",
              mesh |-> [pos |-> Reshape(head, n, 3),
                        uv |-> Reshape(rest, n, 2),
                        indices |-> FromBufferU2(jd.m_IndexBuffer),
                        pixels_to_units |-> GetPixelsToUnits(jd)]]

(* ------------------------------- state -------------------------------- *)
VARIABLES
  texture,    \* process_target: the RGBA atlas shared by all records
  queue,      \* process_target: json records not yet processed (json_paths)
  saved,      \* process_target: the files img.save wrote, in order: the
              \* record each is named after and the image
  pc,         \* position in the loop body of process_target
  jd,         \* the record being processed
  mesh,       \* the tuple load_sprite_mesh returned
  allocated,  \* render_mesh_subpixel: np.zeros (line 66) has run
  out_w,      \* render_mesh_subpixel: locals of the running call
  out_h,
  vx,
  vy,
  out,        \* the float32 buffer, a function <<X, Y>> -> 4 rationals
  t,          \* number of rows of tris the loop has consumed
  writes,     \* history: writes[k] is the set of pixels row k assigned
  img,        \* the image render_mesh_subpixel returned
  err         \* the exception that ended the run, or "none"

jobVars == <<texture, queue, saved>>
meshVars == <<jd, mesh>>
frameVars == <<allocated, out_w, out_h, vx, vy, out, t, writes>>
vars == <<texture, queue, saved, pc, jd, mesh, allocated, out_w, out_h,
          vx, vy, out, t, writes, img, err>>

NoRecord ==
  [m_VertexCount |-> 0, m_Data |-> <<>>, m_IndexBuffer |-> <<>>,
   m_PixelsToUnits |-> <<>>]
NoImage == [w |-> 0, h |-> 0, px |-> <<>>]

(* ----------------------------- rasterizer ----------------------------- *)
\* tex_h, tex_w = tex_np.shape[:2]
tex_w == texture.w
tex_h == texture.h

\* the pixels of a w x h raster, as <<X, Y>> (column, row)
Pixels(w, h) == (0..(w - 1)) \X (0..(h - 1))

RMinOf(S) == CHOOSE a \in S : \A b \in S : RLe(a, b)
RMaxOf(S) == CHOOSE a \in S : \A b \in S : RLe(b, a)

\* pos[:, 0] and pos[:, 1] as sets of values
ColX(pos) == {F(pos[i][1]) : i \in DOMAIN pos}
\* variant: the heights are read from column 2 (z)
ColYFromZ(pos) == {F(pos[i][3]) : i \in DOMAIN pos}
ColY(pos) == {F(pos[i][2]) : i \in DOMAIN pos}

\* scale = float(pixels_to_units)
Scale(m) == RInt(m.pixels_to_units)

\* variant: the width is truncated instead of rounded up
OutWTruncated(m) ==
  RFloor(RMul(RSub(RMaxOf(ColX(m.pos)), RMinOf(ColX(m.pos))), Scale(m)))
\* out_w, out_h (lines 63-64)
OutW(m) == RCeil(RMul(RSub(RMaxOf(ColX(m.pos)), RMinOf(ColX(m.pos))), Scale(m)))
OutH(m) == RCeil(RMul(RSub(RMaxOf(ColY(m.pos)), RMinOf(ColY(m.pos))), Scale(m)))

\* variant: the x positions are not moved to the origin
VXNoShift(m) == [i \in DOMAIN m.pos |-> RMul(F(m.pos[i][1]), Scale(m))]
\* vx (line 69)
VX(m) ==
  [i \in DOMAIN m.pos |->
     RMul(RSub(F(m.pos[i][1]), RMinOf(ColX(m.pos))), Scale(m))]
\* vy (line 70)
\* variant: no vertical flip
VYNoFlip(m) ==
  [i \in DOMAIN m.pos |->
     RMul(RSub(F(m.pos[i][2]), RMinOf(ColY(m.pos))), Scale(m))]
VY(m) ==
  [i \in DOMAIN m.pos |->
     RMul(RSub(RMaxOf(ColY(m.pos)), F(m.pos[i][2])), Scale(m))]

\* np.zeros((out_h, out_w, 4))
Zero4 == <<RInt(0), RInt(0), RInt(0), RInt(0)>>
\* variant: the buffer starts as opaque black
ZerosOpaque(w, h) == [p \in Pixels(w, h) |-> <<RInt(0), RInt(0), RInt(0), RInt(255)>>]
\* variant: the buffer of the previous call is used again when it has the
\* right size
ZerosReused(w, h) ==
  IF saved # <<>> /\ saved[Len(saved)].img.w = w /\ saved[Len(saved)].img.h = h
    THEN [p \in Pixels(w, h) |->
            [ch \in 1..4 |-> RInt(saved[Len(saved)].img.px[p][ch])]]
    ELSE [p \in Pixels(w, h) |-> Zero4]
Zeros(w, h) == [p \in Pixels(w, h) |-> Zero4]

\* tris = indices.reshape(-1, 3): possible when the length divides by 3
CanReshapeTris(indices) == Len(indices) % 3 = 0
NumTris == Len(mesh.indices) \div 3
\* variant: an index past the end is clamped to the last vertex
TriClamped(k) ==
  [j \in 1..3 |-> Min2(mesh.indices[3 * (k - 1) + j], Len(mesh.pos) - 1)]
\* row k (1-based) of tris
Tri(k) ==
  <<mesh.indices[3 * k - 2], mesh.indices[3 * k - 1], mesh.indices[3 * k]>>

\* vx[i], uv[i] raise IndexError for an index past the end (lines 77-79)
IndexInRange(k) == \A j \in 1..3 : Tri(k)[j] < Len(vx)

\* the per-triangle values of lines 75-79, 94 and 108
Geom(k) ==
  LET i0 == Tri(k)[1] + 1
      i1 == Tri(k)[2] + 1
      i2 == Tri(k)[3] + 1
      x0 == vx[i0]
      y0 == vy[i0]
      x1 == vx[i1]
      y1 == vy[i1]
      x2 == vx[i2]
      y2 == vy[i2]
  IN  [x0 |-> x0, y0 |-> y0, x1 |-> x1, y1 |-> y1, x2 |-> x2, y2 |-> y2,
       denom |-> RAdd(RMul(RSub(y1, y2), RSub(x0, x2)),
                      RMul(RSub(x2, x1), RSub(y0, y2))),
       uv0 |-> <<F(mesh.uv[i0][1]), F(mesh.uv[i0][2])>>,
       uv1 |-> <<F(mesh.uv[i1][1]), F(mesh.uv[i1][2])>>,
       uv2 |-> <<F(mesh.uv[i2][1]), F(mesh.uv[i2][2])>>]

\* the expanded, clamped bounding box (lines 82-85)
BoxXmin(g) == Max2(RFloor(RMin(g.x0, RMin(g.x1, g.x2))) - 1, 0)
\* variant: xmax is not cut to the raster
BoxXmaxUnclamped(g) == RCeil(RMax(g.x0, RMax(g.x1, g.x2))) + 1
BoxXmax(g) == Min2(RCeil(RMax(g.x0, RMax(g.x1, g.x2))) + 1, out_w - 1)
BoxYmin(g) == Max2(RFloor(RMin(g.y0, RMin(g.y1, g.y2))) - 1, 0)
BoxYmax(g) == Min2(RCeil(RMax(g.y0, RMax(g.y1, g.y2))) + 1, out_h - 1)
\* variant: only the columns are tested
BoxEmptyColumns(g) == BoxXmax(g) < BoxXmin(g)
BoxEmpty(g) == BoxXmax(g) < BoxXmin(g) \/ BoxYmax(g) < BoxYmin(g)
\* the grid X, Y of line 92
BoxPixels(g) == (BoxXmin(g)..BoxXmax(g)) \X (BoxYmin(g)..BoxYmax(g))

\* abs(denom) < 1e-6, without multiplying by 10^6
Degenerate(g) == Abs(g.denom[1]) <= (g.denom[2] - 1) \div 1000000

\* variant: w1 is the ratio to the unsigned denominator
W1Unsigned(g, X, Y) ==
  RDiv(RAdd(RMul(RSub(g.y1, g.y2), RSub(RInt(X), g.x2)),
            RMul(RSub(g.x2, g.x1), RSub(RInt(Y), g.y2))), RAbs(g.denom))
\* barycentric weights (lines 99-101)
W1(g, X, Y) ==
  RDiv(RAdd(RMul(RSub(g.y1, g.y2), RSub(RInt(X), g.x2)),
            RMul(RSub(g.x2, g.x1), RSub(RInt(Y), g.y2))), g.denom)
W2(g, X, Y) ==
  RDiv(RAdd(RMul(RSub(g.y2, g.y0), RSub(RInt(X), g.x2)),
            RMul(RSub(g.x0, g.x2), RSub(RInt(Y), g.y2))), g.denom)
W3(w1, w2) == RSub(RSub(RInt(1), w1), w2)

\* mask (line 103)
Slack == Rat(-1, 100)
\* variant: no slack, the weights must be non-negative
MaskStrict(w1, w2, w3) == RLe(RInt(0), w1) /\ RLe(RInt(0), w2) /\ RLe(RInt(0), w3)
\* variant: the weights must be positive, pixels on an edge are left out
MaskInterior(w1, w2, w3) == RLt(RInt(0), w1) /\ RLt(RInt(0), w2) /\ RLt(RInt(0), w3)
Mask(w1, w2, w3) == RLe(Slack, w1) /\ RLe(Slack, w2) /\ RLe(Slack, w3)

\* variant: the neighbour index is not clamped
ClipNone(a, lo, hi) == a
\* np.clip(a, lo, hi)
Clip(a, lo, hi) == Min2(Max2(a, lo), hi)

\* variant: the texture rows are not flipped, sy = v * (tex_h - 1)
FragNoFlip(g, X, Y) ==
  LET w1 == W1(g, X, Y)
      w2 == W2(g, X, Y)
      w3 == W3(w1, w2)
      uvx == RAdd(RAdd(RMul(w1, g.uv0[1]), RMul(w2, g.uv1[1])), RMul(w3, g.uv2[1]))
      uvy == RAdd(RAdd(RMul(w1, g.uv0[2]), RMul(w2, g.uv1[2])), RMul(w3, g.uv2[2]))
      sx_f == RMul(uvx, RInt(tex_w - 1))
      sy_f == RMul(uvy, RInt(tex_h - 1))
      x0t == RFloor(sx_f)
      y0t == RFloor(sy_f)
  IN  [w1 |-> w1, w2 |-> w2, w3 |-> w3, mask |-> Mask(w1, w2, w3),
       uvx |-> uvx, uvy |-> uvy, sx_f |-> sx_f, sy_f |-> sy_f,
       x0t |-> x0t, y0t |-> y0t,
       x1t |-> Clip(x0t + 1, 0, tex_w - 1),
       y1t |-> Clip(y0t + 1, 0, tex_h - 1),
       wx |-> RSub(sx_f, RInt(x0t)), wy |-> RSub(sy_f, RInt(y0t))]
\* what lines 99-122 compute for one pixel of the grid
Frag(g, X, Y) ==
  LET w1 == W1(g, X, Y)
      w2 == W2(g, X, Y)
      w3 == W3(w1, w2)
      uvx == RAdd(RAdd(RMul(w1, g.uv0[1]), RMul(w2, g.uv1[1])), RMul(w3, g.uv2[1]))
      uvy == RAdd(RAdd(RMul(w1, g.uv0[2]), RMul(w2, g.uv1[2])), RMul(w3, g.uv2[2]))
      sx_f == RMul(uvx, RInt(tex_w - 1))
      sy_f == RMul(RSub(RInt(1), uvy), RInt(tex_h - 1))
      x0t == RFloor(sx_f)
      y0t == RFloor(sy_f)
  IN  [w1 |-> w1, w2 |-> w2, w3 |-> w3, mask |-> Mask(w1, w2, w3),
       uvx |-> uvx, uvy |-> uvy, sx_f |-> sx_f, sy_f |-> sy_f,
       x0t |-> x0t, y0t |-> y0t,
       x1t |-> Clip(x0t + 1, 0, tex_w - 1),
       y1t |-> Clip(y0t + 1, 0, tex_h - 1),
       wx |-> RSub(sx_f, RInt(x0t)), wy |-> RSub(sy_f, RInt(y0t))]

\* numpy indexing: i is valid on an axis of size n when -n <= i < n, and a
\* negative i counts from the end
ValidIndex(i, n) == -n <= i /\ i < n
WrapIndex(i, n) == IF i < 0 THEN i + n ELSE i
\* tex_np[y, x]
TexAt(y, x) ==
  LET c == texture.px[WrapIndex(y, tex_h) + 1][WrapIndex(x, tex_w) + 1]
  IN  [ch \in 1..4 |-> RInt(c[ch])]

\* lines 124-127 raise IndexError when any index of the grid is invalid
TexelsInRange(f) ==
  /\ ValidIndex(f.x0t, tex_w) /\ ValidIndex(f.x1t, tex_w)
  /\ ValidIndex(f.y0t, tex_h) /\ ValidIndex(f.y1t, tex_h)

\* variant: the first term is not weighted, a + b * w
LerpUnweighted(a, b, w) == [ch \in 1..4 |-> RAdd(a[ch], RMul(b[ch], w))]
\* a * (1 - w) + b * w on each channel
Lerp(a, b, w) ==
  [ch \in 1..4 |-> RAdd(RMul(a[ch], RSub(RInt(1), w)), RMul(b[ch], w))]

\* the blended colour c of one pixel (lines 124-131)
Bilinear(f) ==
  LET c00 == TexAt(f.y0t, f.x0t)
      c10 == TexAt(f.y0t, f.x1t)
      c01 == TexAt(f.y1t, f.x0t)
      c11 == TexAt(f.y1t, f.x1t)
      c0 == Lerp(c00, c10, f.wx)
      c1 == Lerp(c01, c11, f.wx)
  IN  Lerp(c0, c1, f.wy)

\* variant: the conversion to 8 bits without the clamp wraps around
ToByteWrap(v) == RFloor(v) % 256
\* np.clip(v, 0, 255).astype(np.uint8) of one value
ToByte(v) == RFloor(RMin(RMax(v, RInt(0)), RInt(255)))
\* the returned image (line 137)
ToImage(w, h, buf) ==
  [w |-> w, h |-> h, px |-> [p \in DOMAIN buf |-> [ch \in 1..4 |-> ToByte(buf[p][ch])]]]

(* ------------------------------- inputs ------------------------------- *)
\* Vertex layouts: each vertex is <<x, y, z, u, v>> in hundredths; scales
\* lists the values of m_PixelsToUnits tried with it (<<>> is an absent key).
Quad ==
  [verts |-> << <<0, 0, 0, 0, 0>>, <<100, 0, 0, 100, 0>>,
                <<100, 100, 0, 100, 100>>, <<0, 100, 0, 0, 100>> >>,
   scales |-> {<<10>>}]
Small ==
  [verts |-> << <<0, 0, 5, 0, 0>>, <<3, 0, 5, 100, 0>>,
                <<3, 3, 7, 100, 100>>, <<0, 3, 7, 0, 100>> >>,
   scales |-> {<<>>, <<50>>}]
Skew ==
  [verts |-> << <<-25, -25, 0, 0, 0>>, <<25, -25, 0, 100, 0>>,
                <<0, 20, 0, 50, 100>>, <<40, 25, 0, 100, 100>> >>,
   scales |-> {<<10>>}]
Line ==
  [verts |-> << <<0, 0, 0, 0, 0>>, <<2, 2, 0, 50, 50>>, <<4, 4, 0, 100, 100>>,
                <<0, 4, 0, 0, 100>> >>,
   scales |-> {<<>>}]
\* a raster 4 pixels wide without rows
Flat ==
  [verts |-> << <<0, 0, 0, 0, 0>>, <<2, 0, 0, 50, 0>>, <<4, 0, 0, 100, 0>> >>,
   scales |-> {<<>>}]
\* the vertex with UV (1, 1) lies on pixel (0, 0)
Mirror ==
  [verts |-> << <<0, 3, 0, 100, 100>>, <<3, 3, 0, 0, 100>>, <<0, 0, 0, 100, 0>> >>,
   scales |-> {<<>>}]
\* at 1 pixel per unit the edge of vertices 1 and 2 runs 0.02 pixels right
\* of pixel column 0
Sliver ==
  [verts |-> << <<0, 0, 0, 0, 0>>, <<2, 0, 0, 0, 0>>, <<2, 400, 0, 0, 100>>,
                <<402, 0, 0, 100, 0>> >>,
   scales |-> {<<1>>}]
UvWide ==
  [verts |-> << <<0, 0, 0, -50, 0>>, <<3, 0, 0, 100, 0>>, <<0, 3, 0, 0, 150>> >>,
   scales |-> {<<>>}]
UvFar ==
  [verts |-> << <<0, 0, 0, 0, 0>>, <<2, 0, 0, 400, 0>>, <<0, 2, 0, 0, 100>> >>,
   scales |-> {<<>>}]
Dot ==
  [verts |-> << <<7, 7, 0, 50, 50>>, <<7, 7, 1, 50, 50>>, <<7, 7, 2, 50, 50>> >>,
   scales |-> {<<>>, <<-10>>}]
Flipped ==
  [verts |-> << <<0, 0, 0, 0, 0>>, <<3, 0, 0, 100, 0>>, <<0, 3, 0, 0, 100>> >>,
   scales |-> {<<-100>>}]
Single == [verts |-> << <<1, 2, 3, 4, 5>> >>, scales |-> {<<>>}]
Empty == [verts |-> <<>>, scales |-> {<<>>}]
Layouts ==
  {Small, Skew, Line, Flat, Mirror, UvWide, UvFar, Dot, Flipped, Single, Empty}

RECURSIVE Flatten(_)
Flatten(rows) ==
  IF rows = <<>> THEN <<>> ELSE Head(rows) \o Flatten(Tail(rows))

\* the float buffer of a layout: all positions, then all UVs (line 39)
FloatsOf(verts) ==
  Flatten([i \in DOMAIN verts |-> SubSeq(verts[i], 1, 3)])
    \o Flatten([i \in DOMAIN verts |-> SubSeq(verts[i], 4, 5)])

\* index triples tried; MaxVerts is past the end of every layout, 256 needs
\* the high byte of its 16-bit word
GoodTris == {<<0, 1, 2>>, <<0, 2, 3>>, <<2, 1, 3>>, <<1, 1, 0>>}
BadTris == {<<0, MaxVerts, 1>>, <<256, 0, 0>>}
\* rows of tris: the loop ends at the first row of BadTris, so such a row
\* only comes last
TriLists ==
  UNION {[1..n -> GoodTris] : n \in 0..MaxTris}
    \cup UNION {{Append(ts, b) : ts \in [1..n -> GoodTris], b \in BadTris} :
                 n \in 0..(MaxTris - 1)}
\* whole triangles, optionally followed by one or two more indices
IndexLists ==
  {Flatten(ts) \o tail : ts \in TriLists, tail \in {<<>>, <<0>>, <<1, 2>>}}
\* the little-endian bytes of a list of 16-bit indices
BytesOf(indices) ==
  Flatten([i \in DOMAIN indices |-> <<indices[i] % 256, indices[i] \div 256>>])
\* index buffers: the bytes of an index list, or those bytes cut by one
IndexBuffers ==
  {BytesOf(l) : l \in IndexLists}
    \cup {SubSeq(BytesOf(l), 1, Len(BytesOf(l)) - 1) :
            l \in {m \in IndexLists : Len(m) = 3}}

\* records whose float buffer fits the declared vertex count
FittingRecords ==
  UNION {{[m_VertexCount |-> Len(L.verts), m_Data |-> FloatsOf(L.verts),
           m_IndexBuffer |-> b, m_PixelsToUnits |-> s] :
            s \in L.scales, b \in IndexBuffers} : L \in Layouts}
\* the unit quad at 10 pixels per unit, with a few index lists of its own
\* (its raster is the largest of the catalogue)
QuadRecords ==
  {[m_VertexCount |-> 4, m_Data |-> FloatsOf(Quad.verts),
    m_IndexBuffer |-> BytesOf(l), m_PixelsToUnits |-> <<10>>] :
     l \in {<<0, 1, 2, 0, 2, 3>>, <<0, 2, 3, 0, 1, 2>>, <<0, 2, 3>>,
            <<0, 1, 2, 0, 2, MaxVerts>>}}
\* the sliver at 1 pixel per unit (at the default scale its raster would be
\* 402 x 400)
SliverRecords ==
  {[m_VertexCount |-> 4, m_Data |-> FloatsOf(Sliver.verts),
    m_IndexBuffer |-> BytesOf(l), m_PixelsToUnits |-> <<1>>] :
     l \in {<<2, 1, 3>>, <<1, 2, 3>>, <<2, 1, 3, 0, 1, 2>>}}
\* the six orders of a row of tris
Orders(r) ==
  {<<r[a[1]], r[a[2]], r[a[3]]>> :
     a \in {<<1, 2, 3>>, <<2, 3, 1>>, <<3, 1, 2>>, <<1, 3, 2>>, <<3, 2, 1>>, <<2, 1, 3>>}}
\* records that list one triangle twice, the second time in another order
ReorderedRecords ==
  UNION {{[m_VertexCount |-> Len(c[1].verts), m_Data |-> FloatsOf(c[1].verts),
           m_IndexBuffer |-> BytesOf(c[2] \o q), m_PixelsToUnits |-> s] :
            s \in c[1].scales, q \in Orders(c[2])} :
         c \in {<<Small, <<0, 1, 2>>>>, <<Skew, <<2, 1, 3>>>>,
                <<Mirror, <<0, 1, 2>>>>, <<Sliver, <<1, 2, 3>>>>}}
\* records with any declared count (a count: 0 and up) and a buffer one or
\* two floats short or long of a layout's
FloatBuffers ==
  UNION {{FloatsOf(L.verts), FloatsOf(L.verts) \o <<9>>, FloatsOf(L.verts) \o <<9, 9>>,
          SliceTo(FloatsOf(L.verts), Max2(Len(L.verts) * 5 - 1, 0)),
          SliceTo(FloatsOf(L.verts), Max2(Len(L.verts) * 5 - 2, 0))} : L \in Layouts}
AnyCountRecords ==
  {[m_VertexCount |-> n, m_Data |-> d, m_IndexBuffer |-> BytesOf(<<0, 1, 2>>),
    m_PixelsToUnits |-> <<>>] : n \in 0..MaxVerts, d \in FloatBuffers}
Records ==
  FittingRecords \cup QuadRecords \cup SliverRecords \cup ReorderedRecords
    \cup AnyCountRecords

\* textures: rows of RGBA texels
Tex2x2 ==
  [w |-> 2, h |-> 2,
   px |-> << << <<255, 0, 0, 255>>, <<0, 255, 0, 255>> >>,
             << <<0, 0, 255, 128>>, <<90, 60, 30, 0>> >> >>]
Tex1x1 == [w |-> 1, h |-> 1, px |-> << << <<10, 20, 30, 40>> >> >>]
Tex3x2 ==
  [w |-> 3, h |-> 2,
   px |-> << << <<255, 0, 0, 255>>, <<0, 255, 0, 255>>, <<7, 7, 7, 7>> >>,
             << <<0, 0, 255, 128>>, <<90, 60, 30, 0>>, <<200, 100, 50, 25>> >> >>]
\* the textures process_target can load: 8-bit RGBA, at least 1 x 1
Textures == {Tex2x2, Tex1x1, Tex3x2}
\* textures only a direct caller of render_mesh_subpixel can pass: without
\* columns or rows, or with values outside 0..255
Tex0x0 == [w |-> 0, h |-> 0, px |-> <<>>]
Tex0x2 == [w |-> 0, h |-> 2, px |-> << <<>>, <<>> >>]
TexWide == [w |-> 1, h |-> 1, px |-> << << <<300, -20, 128, 255>> >> >>]
CallerTextures == {Tex0x0, Tex0x2, TexWide}
\* the records tried with them
CallerRecords ==
  QuadRecords \cup
  {[m_VertexCount |-> 4, m_Data |-> FloatsOf(Small.verts),
    m_IndexBuffer |-> BytesOf(l), m_PixelsToUnits |-> <<>>] :
     l \in {<<>>, <<1, 1, 0>>, <<0, 1, 2>>, <<0, 1, 2, 0, 2, 3>>, <<0, 1, 2, 0, MaxVerts, 1>>}}
\* a record and the same record with other z values
ZShifted(r) ==
  [r EXCEPT !.m_Data =
     [i \in DOMAIN r.m_Data |->
        IF i <= 3 * r.m_VertexCount /\ i % 3 = 0
          THEN 3 * r.m_Data[i] + 11
          ELSE r.m_Data[i]]]
ZRecords ==
  {r \in FittingRecords :
     r.m_Data \in {FloatsOf(Small.verts), FloatsOf(Skew.verts), FloatsOf(Mirror.verts)}}
\* the json files of a batch run
BatchRecords ==
  {[m_VertexCount |-> Len(L.verts), m_Data |-> FloatsOf(L.verts),
    m_IndexBuffer |-> BytesOf(l), m_PixelsToUnits |-> <<>>] :
     L \in {Small, Mirror},
     l \in {<<0, 1, 2>>, <<2, 1, 0, 1, 1, 0>>, <<0, 1, 2, 0, MaxVerts, 1>>}}

(* ------------------------------ behaviour ----------------------------- *)
\* what is fixed before the first record is read
Idle ==
  /\ saved = <<>>
  /\ pc = "next"
  /\ jd = NoRecord
  /\ mesh = NoMesh
  /\ allocated = FALSE
  /\ out_w = 0
  /\ out_h = 0
  /\ vx = <<>>
  /\ vy = <<>>
  /\ out = <<>>
  /\ t = 0
  /\ writes = <<>>
  /\ img = NoImage
  /\ err = "none"

\* process_target with one json file in the directory, or the same two
\* calls made by another caller with a texture of its own
Init ==
  /\ \/ texture \in Textures /\ queue \in {<<r>> : r \in Records}
     \/ texture \in CallerTextures /\ queue \in {<<r>> : r \in CallerRecords}
  /\ Idle

\* process_target with several json files sharing one texture
InitBatch ==
  /\ texture \in {Tex2x2, Tex3x2}
  /\ queue \in UNION {[1..n -> BatchRecords] : n \in 2..MaxJobs}
  /\ Idle

\* process_target with two json files that differ in their z values only
InitZ ==
  /\ texture \in {Tex2x2, Tex3x2}
  /\ queue \in {<<r, ZShifted(r)>> : r \in ZRecords}
  /\ Idle

\* an exception leaves process_target: nothing runs after it
Raise(e) == pc' = "raised" /\ err' = e

\* line 183: load_sprite_mesh on the next json file
LoadMesh ==
  /\ pc = "next"
  /\ queue # <<>>
  /\ jd' = Head(queue)
  /\ queue' = Tail(queue)
  /\ LET r == load_sprite_mesh(Head(queue))
     IN  IF r.raises # "none"
           THEN Raise(r.raises) /\ mesh' = mesh
           ELSE pc' = "loaded" /\ err' = err /\ mesh' = r.mesh
  /\ UNCHANGED <<texture, saved, img>>
  /\ UNCHANGED frameVars

\* variant: the positions are shifted to the origin in place
\* (pos[:, 0] -= min_x)
RenderSetupInPlace ==
  /\ pc = "loaded"
  /\ UNCHANGED <<jobVars, jd, img, t, writes>>
  /\ IF mesh.pos = <<>>
       THEN Raise("ValueError") /\ UNCHANGED <<mesh, allocated, out_w, out_h, vx, vy, out>>
       ELSE /\ out_w' = OutW(mesh)
            /\ out_h' = OutH(mesh)
            /\ mesh' = [mesh EXCEPT !.pos =
                          [i \in DOMAIN mesh.pos |->
                             [mesh.pos[i] EXCEPT ![1] =
                                @ - (CHOOSE m \in {mesh.pos[j][1] : j \in DOMAIN mesh.pos} :
                                       \A j \in DOMAIN mesh.pos : m <= mesh.pos[j][1])]]]
            /\ IF OutW(mesh) < 0 \/ OutH(mesh) < 0
                 THEN Raise("ValueError") /\ UNCHANGED <<allocated, vx, vy, out>>
                 ELSE /\ allocated' = TRUE
                      /\ out' = Zeros(OutW(mesh), OutH(mesh))
                      /\ vx' = VX(mesh)
                      /\ vy' = VY(mesh)
                      /\ IF CanReshapeTris(mesh.indices)
                           THEN pc' = "loop" /\ err' = err
                           ELSE Raise("ValueError")
\* lines 55-72 of render_mesh_subpixel: the statements before the loop
RenderSetup ==
  /\ pc = "loaded"
  /\ UNCHANGED <<jobVars, meshVars, img, t, writes>>
  /\ IF mesh.pos = <<>>
       THEN \* min() of an empty column (line 59)
            Raise("ValueError") /\ UNCHANGED <<allocated, out_w, out_h, vx, vy, out>>
       ELSE /\ out_w' = OutW(mesh)
            /\ out_h' = OutH(mesh)
            /\ IF OutW(mesh) < 0 \/ OutH(mesh) < 0
                 THEN \* np.zeros refuses a negative dimension (line 66)
                      Raise("ValueError") /\ UNCHANGED <<allocated, vx, vy, out>>
                 ELSE /\ allocated' = TRUE
                      /\ out' = Zeros(OutW(mesh), OutH(mesh))
                      /\ vx' = VX(mesh)
                      /\ vy' = VY(mesh)
                      /\ IF CanReshapeTris(mesh.indices)
                           THEN pc' = "loop" /\ err' = err
                           ELSE Raise("ValueError")

\* lines 99-122 over the whole grid of iteration k
Frags(k) ==
  LET g == Geom(k)
  IN  [p \in BoxPixels(g) |-> Frag(g, p[1], p[2])]

\* variant: a degenerate triangle is an error instead of being skipped
TriOutcomeStrict(k) ==
  IF ~IndexInRange(k) THEN "IndexError"
  ELSE IF BoxEmpty(Geom(k)) THEN "skip"
  ELSE IF Degenerate(Geom(k)) THEN "IndexError"
  ELSE LET fr == Frags(k)
       IN  IF \A p \in DOMAIN fr : ~fr[p].mask THEN "skip"
           ELSE IF \E p \in DOMAIN fr : ~TexelsInRange(fr[p]) THEN "IndexError"
           ELSE "paint"
\* the outcome of loop iteration k (lines 75-135)
TriOutcome(k) ==
  IF ~IndexInRange(k) THEN "IndexError"
  ELSE IF BoxEmpty(Geom(k)) THEN "skip"
  ELSE IF Degenerate(Geom(k)) THEN "skip"
  ELSE LET fr == Frags(k)
       IN  IF \A p \in DOMAIN fr : ~fr[p].mask THEN "skip"
           ELSE IF \E p \in DOMAIN fr : ~TexelsInRange(fr[p]) THEN "IndexError"
           ELSE "paint"

\* the pixels selected by mask (oy[mask], ox[mask])
Covered(fr) == {p \in DOMAIN fr : fr[p].mask}

\* variant: the new colour is averaged with the one already in the buffer
PaintedBlend(buf, fr) ==
  [p \in DOMAIN buf |->
     IF p \in DOMAIN fr /\ fr[p].mask
       THEN [ch \in 1..4 |-> RMul(RAdd(buf[p][ch], Bilinear(fr[p])[ch]), Rat(1, 2))]
       ELSE buf[p]]
\* variant: the new colour is laid over the old one by its alpha
PaintedOver(buf, fr) ==
  [p \in DOMAIN buf |->
     IF p \in DOMAIN fr /\ fr[p].mask
       THEN LET c == Bilinear(fr[p])
                a == RDiv(c[4], RInt(255))
            IN  [ch \in 1..4 |->
                   RAdd(RMul(c[ch], a), RMul(buf[p][ch], RSub(RInt(1), a)))]
       ELSE buf[p]]
\* the buffer after out[oy[mask], ox[mask]] = c[mask] (line 135)
Painted(buf, fr) ==
  [p \in DOMAIN buf |->
     IF p \in DOMAIN fr /\ fr[p].mask THEN Bilinear(fr[p]) ELSE buf[p]]

\* one iteration of the loop over tris (lines 74-135)
RenderTriangle ==
  /\ pc = "loop"
  /\ t < NumTris
  /\ UNCHANGED <<jobVars, meshVars, img, allocated, out_w, out_h, vx, vy>>
  /\ LET o == TriOutcome(t + 1)
         fr == Frags(t + 1)
     IN  CASE o = "IndexError" -> Raise("IndexError") /\ UNCHANGED <<out, t, writes>>
           [] o = "skip" ->
                /\ t' = t + 1
                /\ writes' = Append(writes, {})
                /\ UNCHANGED <<out, pc, err>>
           [] o = "paint" ->
                /\ t' = t + 1
                /\ writes' = Append(writes, Covered(fr))
                /\ out' = Painted(out, fr)
                /\ UNCHANGED <<pc, err>>

\* line 137: the loop is over, the image is built and returned
RenderReturn ==
  /\ pc = "loop"
  /\ t = NumTris
  /\ img' = ToImage(out_w, out_h, out)
  /\ pc' = "rendered"
  /\ UNCHANGED <<jobVars, meshVars, frameVars, err>>

\* variant: every image is written to the same path, so only the last one
\* is left
SaveSamePath ==
  /\ pc = "rendered"
  /\ saved' = [i \in 1..(Len(saved) + 1) |-> [jd |-> jd, img |-> img]]
  /\ pc' = "next"
  /\ allocated' = FALSE
  /\ out_w' = 0
  /\ out_h' = 0
  /\ vx' = <<>>
  /\ vy' = <<>>
  /\ out' = <<>>
  /\ t' = 0
  /\ writes' = <<>>
  /\ UNCHANGED <<texture, queue, meshVars, img, err>>
\* line 190: img.save, then the next json file; the call's locals are gone
\* (the PNG writer itself is outside the model and taken to succeed)
Save ==
  /\ pc = "rendered"
  /\ saved' = Append(saved, [jd |-> jd, img |-> img])
  /\ pc' = "next"
  /\ allocated' = FALSE
  /\ out_w' = 0
  /\ out_h' = 0
  /\ vx' = <<>>
  /\ vy' = <<>>
  /\ out' = <<>>
  /\ t' = 0
  /\ writes' = <<>>
  /\ UNCHANGED <<texture, queue, meshVars, img, err>>

Next == LoadMesh \/ RenderSetup \/ RenderTriangle \/ RenderReturn \/ Save

Spec == Init /\ [][Next]_vars
SpecBatch == InitBatch /\ [][Next]_vars
SpecZ == InitZ /\ [][Next]_vars

(* ------------------------------- claims ------------------------------- *)
\* the rows of tris, among those consumed, that assigned pixel p
Coverers(p) == {k \in 1..Len(writes) : p \in writes[k]}
LastOf(S) == CHOOSE k \in S : \A j \in S : j <= k
\* the bilinear sample row k computes for pixel p
SampleOf(k, p) == Bilinear(Frag(Geom(k), p[1], p[2]))
ByteColour(c) == [ch \in 1..4 |-> ToByte(c[ch])]

\* C1: the loop consumes the rows of tris one by one in index order, and at
\* every point of the loop and in the returned image a pixel that two or
\* more rows have assigned holds exactly the sample of the last of them.
C1_LastDrawnWins ==
  pc \in {"loop", "rendered"} =>
    /\ Len(writes) = t
    /\ \A p \in DOMAIN out :
         Cardinality(Coverers(p)) >= 2 =>
           /\ out[p] = SampleOf(LastOf(Coverers(p)), p)
           /\ pc = "rendered" => img.px[p] = ByteColour(SampleOf(LastOf(Coverers(p)), p))

\* an image was returned in which some pixel was assigned by two rows whose
\* samples differ, and the pixel shows the later one
C1_Witness ==
  /\ pc = "rendered"
  /\ \E p \in DOMAIN out :
       \E k1, k2 \in Coverers(p) :
         /\ k1 < k2
         /\ k2 = LastOf(Coverers(p))
         /\ ByteColour(SampleOf(k1, p)) # ByteColour(SampleOf(k2, p))
         /\ img.px[p] = ByteColour(SampleOf(k2, p))

\* the record's index buffer decodes to whole triangles and names a vertex
\* past the declared count
RecordHasBadIndex(r) ==
  /\ CanFromBufferU2(r.m_IndexBuffer)
  /\ Len(FromBufferU2(r.m_IndexBuffer)) % 3 = 0
  /\ \E i \in DOMAIN FromBufferU2(r.m_IndexBuffer) :
       FromBufferU2(r.m_IndexBuffer)[i] >= r.m_VertexCount
NoPixelWritten == \A k \in DOMAIN writes : writes[k] = {}

\* C2: while a record whose index buffer holds a value >= vertex_count is
\* being processed, no raster buffer is ever allocated and no pixel is
\* ever written.
C2_BadIndexRaisesBeforeAllocation ==
  (jd # NoRecord /\ RecordHasBadIndex(jd)) => (~allocated /\ NoPixelWritten)

\* C3: every mesh the decoder returns has all its indices below the vertex
\* count.
C3_DecodedIndicesInRange ==
  pc = "loaded" =>
    \A i \in DOMAIN mesh.indices : mesh.indices[i] < jd.m_VertexCount

\* the mesh has an index past its last vertex
MeshHasBadIndex == \E i \in DOMAIN mesh.indices : mesh.indices[i] >= Len(mesh.pos)
\* the first row of tris that holds such an index
FirstBadRow ==
  LET bad == {i \in DOMAIN mesh.indices : mesh.indices[i] >= Len(mesh.pos)}
  IN  ((CHOOSE i \in bad : \A j \in bad : i <= j) + 2) \div 3

\* C4: a call of render_mesh_subpixel on a mesh with an index >= the vertex
\* count never gets past the row holding it: the loop is never completed, no
\* image is returned or saved.
C4_BadIndexNeverReturns ==
  (mesh # NoMesh /\ MeshHasBadIndex) =>
    /\ pc \in {"loaded", "loop", "raised"}
    /\ img = NoImage
    /\ saved = <<>>
    /\ pc = "loop" => t < FirstBadRow /\ t < NumTris

\* a first row painted pixels, the second names a vertex past the end, and
\* the call ended in IndexError
C4_Witness ==
  /\ pc = "raised"
  /\ err = "IndexError"
  /\ MeshHasBadIndex
  /\ FirstBadRow = 2
  /\ Len(writes) = 1
  /\ writes[1] # {}

\* C5: the decoder never returns a mesh whose index count is not a multiple
\* of 3, so the rasterizer is never entered with one.
C5_DecoderRejectsPartialTriangle ==
  pc \in {"loaded", "loop"} => Len(mesh.indices) % 3 = 0

\* C6: a record whose float count differs from 5 * vertex_count makes the
\* decoder raise (numpy's ValueError, the error the spec calls
\* MalformedMeshError); a record is decoded only with exactly that count.
C6_FloatCountChecked ==
  jd # NoRecord =>
    /\ Len(jd.m_Data) # 5 * jd.m_VertexCount => pc = "raised" /\ err = "ValueError"
    /\ pc \in {"loaded", "loop", "rendered"} => Len(jd.m_Data) = 5 * jd.m_VertexCount

\* a buffer with two floats too many for its three declared vertices (the
\* positions split off cleanly, the remainder holds four UV pairs) was refused
C6_Witness ==
  /\ pc = "raised"
  /\ err = "ValueError"
  /\ jd.m_VertexCount = 3
  /\ Len(jd.m_Data) = 17
  /\ ~allocated

\* C7: a decoded mesh has as many positions as UVs, both the declared
\* vertex count.
C7_CountsAgree ==
  pc \in {"loaded", "loop", "rendered"} =>
    /\ Len(mesh.pos) = jd.m_VertexCount
    /\ Len(mesh.uv) = jd.m_VertexCount

\* a four-vertex record was decoded
C7_Witness ==
  /\ pc = "loaded"
  /\ jd.m_VertexCount = 4
  /\ Len(mesh.pos) = 4
  /\ Len(mesh.uv) = 4

\* C8: in a decoded mesh, position i is floats 3i..3i+2, UV i is floats
\* 3n+2i..3n+2i+1 (0-based, n the vertex count), and index j is the j-th
\* little-endian 16-bit word of the index buffer.
C8_DecoderLayout ==
  pc = "loaded" =>
    LET n == jd.m_VertexCount
        f == jd.m_Data
        b == jd.m_IndexBuffer
    IN  /\ \A i \in 0..(n - 1) :
             /\ mesh.pos[i + 1] = <<f[3 * i + 1], f[3 * i + 2], f[3 * i + 3]>>
             /\ mesh.uv[i + 1] = <<f[3 * n + 2 * i + 1], f[3 * n + 2 * i + 2]>>
        /\ Len(mesh.indices) * 2 = Len(b)
        /\ \A j \in 0..(Len(mesh.indices) - 1) :
             mesh.indices[j + 1] = b[2 * j + 1] + 256 * b[2 * j + 2]

\* a four-vertex record with unequal coordinates and an index above 255 was
\* decoded
C8_Witness ==
  /\ pc = "loaded"
  /\ mesh.pos = << <<-25, -25, 0>>, <<25, -25, 0>>, <<0, 20, 0>>, <<40, 25, 0>> >>
  /\ mesh.uv = << <<0, 0>>, <<100, 0>>, <<50, 100>>, <<100, 100>> >>
  /\ \E j \in DOMAIN mesh.indices : mesh.indices[j] = 256

\* extent of the mesh along coordinate c (1 = x, 2 = y), in hundredths
Extent(c) ==
  LET vals == {mesh.pos[i][c] : i \in DOMAIN mesh.pos}
  IN  (CHOOSE a \in vals : \A v \in vals : v <= a)
        - (CHOOSE a \in vals : \A v \in vals : a <= v)
\* n is the ceiling of e hundredths times the scale
IsCeilOf(n, e) ==
  /\ n * 100 >= e * mesh.pixels_to_units
  /\ (n - 1) * 100 < e * mesh.pixels_to_units
\* vertices no row of tris names
Unreferenced ==
  {i \in DOMAIN mesh.pos : \A j \in DOMAIN mesh.indices : mesh.indices[j] # i - 1}

\* C9: the returned image is ceil((max_x - min_x) * scale) wide and
\* ceil((max_y - min_y) * scale) high, min and max taken over all vertices,
\* and holds exactly that many pixels.
C9_OutputSize ==
  pc = "rendered" =>
    /\ IsCeilOf(img.w, Extent(1))
    /\ IsCeilOf(img.h, Extent(2))
    /\ DOMAIN img.px = Pixels(img.w, img.h)

\* an image was returned whose width is a proper round-up (6.5 -> 7) set by
\* a vertex that no triangle references
C9_Witness ==
  /\ pc = "rendered"
  /\ img.w = 7
  /\ img.h = 5
  /\ Extent(1) * mesh.pixels_to_units = 650
  /\ \E i \in Unreferenced : \A j \in DOMAIN mesh.pos : j # i => mesh.pos[j][1] < mesh.pos[i][1]
  /\ \E k \in DOMAIN writes : writes[k] # {}

\* the record of the end-to-end scenario
QuadRecord ==
  [m_VertexCount |-> 4,
   m_Data |-> <<0, 0, 0, 100, 0, 0, 100, 100, 0, 0, 100, 0,
                0, 0, 100, 0, 100, 100, 0, 100>>,
   m_IndexBuffer |-> <<0, 0, 1, 0, 2, 0, 0, 0, 2, 0, 3, 0>>,
   m_PixelsToUnits |-> <<10>>]

\* C10: the unit quad at 10 pixels per unit against the 2x2 texture gives a
\* 10 x 10 image, every pixel of it assigned by some triangle, and pixel
\* (0, 0) is sampled at UV (0, 1): texel (0, 0), unblended.
C10_QuadScenario ==
  (jd = QuadRecord /\ texture = Tex2x2 /\ pc = "rendered") =>
    /\ img.w = 10
    /\ img.h = 10
    /\ UNION {writes[k] : k \in DOMAIN writes} = Pixels(10, 10)
    /\ LET f == Frag(Geom(LastOf(Coverers(<<0, 0>>))), 0, 0)
       IN  /\ f.uvx = RInt(0)
           /\ f.uvy = RInt(1)
           /\ f.x0t = 0
           /\ f.y0t = 0
           /\ f.wx = RInt(0)
           /\ f.wy = RInt(0)
    /\ img.px[<<0, 0>>] = texture.px[1][1]

\* the scenario ran to its image, whose four corners show the four texels
C10_Witness ==
  /\ jd = QuadRecord
  /\ texture = Tex2x2
  /\ pc = "rendered"
  /\ img.px[<<0, 0>>] = <<255, 0, 0, 255>>
  /\ img.px[<<9, 9>>] # img.px[<<0, 0>>]
  /\ Cardinality(UNION {writes[k] : k \in DOMAIN writes}) = 100

\* iteration k reaches the texture fetch of lines 124-127
Samples(k) ==
  /\ IndexInRange(k)
  /\ ~BoxEmpty(Geom(k))
  /\ ~Degenerate(Geom(k))
  /\ \E p \in BoxPixels(Geom(k)) : Frag(Geom(k), p[1], p[2]).mask
\* the iteration the loop is about to run
NextRow == {k \in {t + 1} : k <= NumTris}
\* the iteration the loop has just run, whose writes were recorded last
LastRow == {k \in {Len(writes)} : k >= 1}
InTexture(x, y) == x \in 0..(tex_w - 1) /\ y \in 0..(tex_h - 1)

\* C11: with a texture of at least 1 x 1, every grid pixel of a sampling
\* iteration whose UV lies in [0, 1] x [0, 1] fetches its four texels inside
\* the texture; on the last column x1t is clamped to tex_w - 1, on the last
\* row y1t to tex_h - 1, and UV (1, 1) fetches column tex_w - 1 of row 0.
C11_LastTexelClamped ==
  (pc = "loop" /\ tex_w >= 1 /\ tex_h >= 1) =>
    \A k \in NextRow : Samples(k) =>
      \A p \in BoxPixels(Geom(k)) :
        LET f == Frag(Geom(k), p[1], p[2])
        IN  /\ (f.x0t = tex_w - 1) => (f.x1t = tex_w - 1)
            /\ (f.y0t = tex_h - 1) => (f.y1t = tex_h - 1)
            /\ (/\ RLe(RInt(0), f.uvx) /\ RLe(f.uvx, RInt(1))
                /\ RLe(RInt(0), f.uvy) /\ RLe(f.uvy, RInt(1))) =>
                 /\ InTexture(f.x0t, f.y0t) /\ InTexture(f.x1t, f.y0t)
                 /\ InTexture(f.x0t, f.y1t) /\ InTexture(f.x1t, f.y1t)
            /\ (f.uvx = RInt(1) /\ f.uvy = RInt(1)) =>
                 /\ f.x0t = tex_w - 1 /\ f.x1t = tex_w - 1
                 /\ f.y0t = 0 /\ f.y1t = Min2(1, tex_h - 1)
\* a call returned after writing a pixel sampled at UV (1, 1) from a
\* texture with more than one column and row
C11_Witness ==
  /\ pc = "rendered"
  /\ tex_w >= 2 /\ tex_h >= 2
  /\ \E k \in 1..Len(writes) : \E p \in writes[k] :
       LET f == Frag(Geom(k), p[1], p[2])
       IN  f.uvx = RInt(1) /\ f.uvy = RInt(1) /\ f.x1t = f.x0t

\* the raster vertices of row k lie on one line (or coincide): the cross
\* product of two edge vectors is zero
Collinear(k) ==
  LET i0 == Tri(k)[1] + 1
      i1 == Tri(k)[2] + 1
      i2 == Tri(k)[3] + 1
  IN  RSub(RMul(RSub(vx[i1], vx[i0]), RSub(vy[i2], vy[i0])),
           RMul(RSub(vx[i2], vx[i0]), RSub(vy[i1], vy[i0]))) = RInt(0)

\* C12: an iteration whose three raster vertices are collinear raises
\* nothing and writes no pixel: the buffer is unchanged and the loop goes on
\* to the next row of tris.
C12_CollinearSkipped ==
  [][(pc = "loop" /\ t < NumTris /\ IndexInRange(t + 1) /\ Collinear(t + 1)) =>
       /\ pc' = "loop" /\ err' = err
       /\ t' = t + 1
       /\ out' = out
       /\ writes' = Append(writes, {})]_vars
\* a call returned whose first row joins three distinct collinear vertices
\* and wrote nothing, and whose second row painted
C12_Witness ==
  /\ pc = "rendered"
  /\ Len(writes) = 2
  /\ Collinear(1)
  /\ Cardinality({Tri(1)[j] : j \in 1..3}) = 3
  /\ writes[1] = {}
  /\ writes[2] # {}
  /\ \E p \in writes[2] : out[p] # Zero4

\* C13: the buffer is all zeros when the loop starts, and in the returned
\* image every pixel that no iteration's mask selected is (0, 0, 0, 0).
C13_UntouchedTransparent ==
  /\ (pc = "loop" /\ t = 0) => \A p \in DOMAIN out : out[p] = Zero4
  /\ pc = "rendered" =>
       /\ DOMAIN img.px = Pixels(out_w, out_h)
       /\ \A p \in DOMAIN img.px :
            Coverers(p) = {} => img.px[p] = <<0, 0, 0, 0>>
\* a returned image with a pixel no row selected next to a painted pixel
\* that is not transparent black
C13_Witness ==
  /\ pc = "rendered"
  /\ \E p \in DOMAIN img.px : Coverers(p) = {}
  /\ \E p \in DOMAIN img.px : Coverers(p) # {} /\ img.px[p] # <<0, 0, 0, 0>>

\* C14: a call whose texture has no columns or no rows never returns a
\* raster.
C14_EmptyTextureNeverReturns ==
  (tex_w < 1 \/ tex_h < 1) => pc # "rendered"

\* the mesh a saved file was rendered from
MeshOf(f) == load_sprite_mesh(f.jd).mesh

\* C15: in a batch sharing one texture, two calls given the same mesh
\* return the same image, whatever was rendered between them.
C15_SameInputsSameRaster ==
  /\ \A i, j \in DOMAIN saved :
       MeshOf(saved[i]) = MeshOf(saved[j]) => saved[i].img = saved[j].img
  /\ pc = "rendered" =>
       \A i \in DOMAIN saved : MeshOf(saved[i]) = mesh => saved[i].img = img
\* the first and third call had the same mesh, the second another one and
\* another image
C15_Witness ==
  /\ Len(saved) = 3
  /\ MeshOf(saved[1]) = MeshOf(saved[3])
  /\ MeshOf(saved[2]) # MeshOf(saved[1])
  /\ saved[2].img # saved[1].img
  /\ \E p \in DOMAIN saved[1].img.px : saved[1].img.px[p] # <<0, 0, 0, 0>>

\* C16: no step of a later call, whether it paints, returns or raises,
\* changes a file saved from an earlier call; and the buffer a call
\* allocates holds nothing of an earlier call.
C16_EarlierRastersUntouched ==
  [][/\ \A i \in DOMAIN saved : i \in DOMAIN saved' /\ saved'[i] = saved[i]
     /\ (pc' = "raised") => (saved' = saved)
     /\ (~allocated /\ allocated') => \A p \in DOMAIN out' : out'[p] = Zero4]_vars
\* a call raised after painting part of its buffer, with a painted image of
\* an earlier call saved
C16_Witness ==
  /\ pc = "raised"
  /\ Len(saved) >= 1
  /\ \E p \in DOMAIN saved[1].img.px : saved[1].img.px[p] # <<0, 0, 0, 0>>
  /\ \E p \in DOMAIN out : out[p] # Zero4

\* C17: no step of render_mesh_subpixel, returning or raising, changes the
\* texture or the mesh's positions, UVs and indices.
C17_InputsUnchanged ==
  [][(pc \in {"loaded", "loop"}) =>
       /\ texture' = texture
       /\ mesh'.pos = mesh.pos /\ mesh'.uv = mesh.uv /\ mesh'.indices = mesh.indices]_vars
\* a call raised after painting, from a mesh whose leftmost vertex is left
\* of x = 0, and the mesh is still the decoded one
C17_Witness ==
  /\ pc = "raised" /\ err = "IndexError"
  /\ \E k \in 1..Len(writes) : writes[k] # {}
  /\ \E i \in DOMAIN mesh.pos : mesh.pos[i][1] < 0
  /\ mesh = load_sprite_mesh(jd).mesh

\* C18: every channel of the returned image is the buffer's value clamped
\* to 0..255 and then truncated: at most 0 gives 0, at least 255 gives 255,
\* and a value in between gives its integer part.
C18_ChannelsClamped ==
  pc = "rendered" =>
    \A p \in DOMAIN img.px : \A ch \in 1..4 :
      LET v == out[p][ch]
          b == img.px[p][ch]
      IN  /\ b \in 0..255
          /\ RLe(v, RInt(0)) => b = 0
          /\ RLe(RInt(255), v) => b = 255
          /\ (RLt(RInt(0), v) /\ RLt(v, RInt(255))) =>
               (RLe(RInt(b), v) /\ RLt(v, RInt(b + 1)))
\* a returned image with a pixel blended to 300 and to -20, stored as 255
\* and 0
C18_Witness ==
  /\ pc = "rendered"
  /\ \E p \in DOMAIN img.px :
       /\ out[p][1] = RInt(300) /\ img.px[p][1] = 255
       /\ out[p][2] = RInt(-20) /\ img.px[p][2] = 0

\* the scale the record of the current call asks for
RecordScale == IF jd.m_PixelsToUnits = <<>> THEN 100 ELSE jd.m_PixelsToUnits[1]
MinPosX == CHOOSE m \in {mesh.pos[j][1] : j \in DOMAIN mesh.pos} :
             \A j \in DOMAIN mesh.pos : m <= mesh.pos[j][1]

\* C19: the decoded mesh carries the record's m_PixelsToUnits, or 100 when
\* the record has none, and the rasterizer scales with that same value:
\* each vx is the offset from the leftmost vertex times it.
C19_ScalePassedThrough ==
  /\ (pc \in {"loaded", "loop", "rendered"}) => mesh.pixels_to_units = RecordScale
  /\ (pc \in {"loop", "rendered"}) =>
       \A i \in DOMAIN vx : vx[i] = Rat((mesh.pos[i][1] - MinPosX) * RecordScale, 100)
\* a record without the key: the loop runs on a raster 3 pixels wide for
\* positions 0.03 units wide
C19_Witness ==
  /\ pc = "loop"
  /\ jd.m_PixelsToUnits = <<>>
  /\ mesh.pixels_to_units = 100
  /\ \E i \in DOMAIN mesh.pos : mesh.pos[i][1] - MinPosX = 3
  /\ out_w = 3

\* twice the signed area of the triangle a, b, c (points <<x, y>>)
Area2(a, b, c) ==
  RSub(RMul(RSub(b[1], a[1]), RSub(c[2], a[2])),
       RMul(RSub(c[1], a[1]), RSub(b[2], a[2])))
\* the raster vertex j (1..3) of row k
Corner(k, j) == <<vx[Tri(k)[j] + 1], vy[Tri(k)[j] + 1]>>
\* the barycentric weights of pixel p in row k, as ratios of areas
AreaWeights(k, p) ==
  LET q == <<RInt(p[1]), RInt(p[2])>>
      a == Area2(Corner(k, 1), Corner(k, 2), Corner(k, 3))
  IN  <<RDiv(Area2(q, Corner(k, 2), Corner(k, 3)), a),
        RDiv(Area2(Corner(k, 1), q, Corner(k, 3)), a),
        RDiv(Area2(Corner(k, 1), Corner(k, 2), q), a)>>
\* p lies in the bounding box of row k, widened by one pixel on each side
\* and cut to the raster
InExpandedBox(k, p) ==
  LET xs == {Corner(k, j)[1] : j \in 1..3}
      ys == {Corner(k, j)[2] : j \in 1..3}
  IN  /\ p[1] >= 0 /\ p[1] <= out_w - 1
      /\ p[2] >= 0 /\ p[2] <= out_h - 1
      /\ p[1] >= RFloor(RMinOf(xs)) - 1 /\ p[1] <= RCeil(RMaxOf(xs)) + 1
      /\ p[2] >= RFloor(RMinOf(ys)) - 1 /\ p[2] <= RCeil(RMaxOf(ys)) + 1

\* C20: for the row the loop has just consumed, if its vertices are not
\* collinear, the pixels the row wrote are exactly the raster pixels inside
\* its expanded, clamped bounding box whose three barycentric weights are
\* all at least -0.01.
C20_InclusionTest ==
  \A k \in LastRow : ~Collinear(k) =>
    \A p \in DOMAIN out :
      p \in writes[k] <=>
        /\ InExpandedBox(k, p)
        /\ \A j \in 1..3 : RLe(Rat(-1, 100), AreaWeights(k, p)[j])
\* a row wrote a pixel lying outside the triangle by less than the slack and
\* left out another pixel of its box
C20_Witness ==
  /\ pc = "rendered"
  /\ \E k \in 1..Len(writes) :
       /\ ~Collinear(k)
       /\ \E p \in writes[k] : \E j \in 1..3 : RLt(AreaWeights(k, p)[j], RInt(0))
       /\ \E p \in DOMAIN out : InExpandedBox(k, p) /\ p \notin writes[k]

MaxPosY == CHOOSE m \in {mesh.pos[j][2] : j \in DOMAIN mesh.pos} :
             \A j \in DOMAIN mesh.pos : mesh.pos[j][2] <= m

\* C21: once the raster vertices are computed, vx is (x - min_x) * scale and
\* vy is (max_y - y) * scale; a vertex with the largest y is on row 0; and
\* for a positive scale a larger y gives a smaller vy, every vx lies in
\* [0, (max_x - min_x) * scale] and every vy in [0, (max_y - min_y) * scale].
C21_CoordinateTransform ==
  (pc \in {"loop", "rendered"}) =>
    LET sc == mesh.pixels_to_units
    IN  /\ \A i \in DOMAIN mesh.pos :
             /\ vx[i] = Rat((mesh.pos[i][1] - MinPosX) * sc, 100)
             /\ vy[i] = Rat((MaxPosY - mesh.pos[i][2]) * sc, 100)
             /\ (mesh.pos[i][2] = MaxPosY) => (vy[i] = RInt(0))
        /\ sc > 0 =>
             /\ \A i, j \in DOMAIN mesh.pos :
                  (mesh.pos[i][2] < mesh.pos[j][2]) => RLt(vy[j], vy[i])
             /\ \A i \in DOMAIN mesh.pos :
                  /\ RLe(RInt(0), vx[i]) /\ RLe(vx[i], Rat(Extent(1) * sc, 100))
                  /\ RLe(RInt(0), vy[i]) /\ RLe(vy[i], Rat(Extent(2) * sc, 100))
\* the loop runs on a mesh whose leftmost vertex is left of x = 0 and whose
\* vertices have several heights
C21_Witness ==
  /\ pc = "loop"
  /\ mesh.pixels_to_units > 0
  /\ MinPosX < 0
  /\ \E i, j \in DOMAIN mesh.pos :
       mesh.pos[i][2] < mesh.pos[j][2] /\ RLt(vy[j], vy[i]) /\ RLt(RInt(0), vy[j])

\* the UV of vertex j (1..3) of row k
CornerUV(k, j) == <<F(mesh.uv[Tri(k)[j] + 1][1]), F(mesh.uv[Tri(k)[j] + 1][2])>>
\* the UV of pixel p in row k: the vertex UVs weighted by the area ratios
AreaUV(k, p) ==
  LET w == AreaWeights(k, p)
  IN  [c \in 1..2 |->
         RAdd(RAdd(RMul(w[1], CornerUV(k, 1)[c]), RMul(w[2], CornerUV(k, 2)[c])),
              RMul(w[3], CornerUV(k, 3)[c]))]

\* C22: every pixel a sampling iteration selects has the UV interpolated
\* from the three vertex UVs by its barycentric weights, and is sampled at
\* sx = u * (tex_w - 1), sy = (1 - v) * (tex_h - 1): v = 1 gives row 0 and
\* v = 0 row tex_h - 1; a pixel on a vertex has that vertex's UV.
C22_UvToTexel ==
  pc = "loop" =>
    \A k \in NextRow : Samples(k) =>
      \A p \in BoxPixels(Geom(k)) :
        LET f == Frag(Geom(k), p[1], p[2])
            uv == AreaUV(k, p)
        IN  f.mask =>
              /\ f.uvx = uv[1] /\ f.uvy = uv[2]
              /\ f.sx_f = RMul(uv[1], RInt(tex_w - 1))
              /\ f.sy_f = RMul(RSub(RInt(1), uv[2]), RInt(tex_h - 1))
              /\ (uv[2] = RInt(1)) => (f.sy_f = RInt(0))
              /\ (uv[2] = RInt(0)) => (f.sy_f = RInt(tex_h - 1))
              /\ \A j \in 1..3 :
                   (Corner(k, j) = <<RInt(p[1]), RInt(p[2])>>) =>
                     (f.uvx = CornerUV(k, j)[1] /\ f.uvy = CornerUV(k, j)[2])
\* a call returned that wrote a pixel lying on a vertex with v = 1, read
\* from row 0 of a texture with two rows, and a pixel sampled between texels
C22_Witness ==
  /\ pc = "rendered"
  /\ tex_h >= 2
  /\ \E k \in 1..Len(writes) :
       /\ \E p \in writes[k] : \E j \in 1..3 :
            /\ Corner(k, j) = <<RInt(p[1]), RInt(p[2])>>
            /\ CornerUV(k, j)[2] = RInt(1)
            /\ Frag(Geom(k), p[1], p[2]).y0t = 0
       /\ \E p \in writes[k] : Frag(Geom(k), p[1], p[2]).wy # RInt(0)

\* no raster pixel lies in the expanded bounding box of row k
NoBoxPixel(k) == \A p \in Pixels(out_w, out_h) : ~InExpandedBox(k, p)

\* C23: with in-range indices, the clamped box of an iteration is empty
\* exactly when no raster pixel lies in its expanded box, which is the case
\* of every iteration when the raster has no columns or no rows; such an
\* iteration raises nothing, leaves the buffer unchanged and the loop goes
\* on to the next row.
C23_EmptyBoxSkipped ==
  [][(pc = "loop" /\ t < NumTris /\ IndexInRange(t + 1)) =>
       /\ BoxEmpty(Geom(t + 1)) <=> NoBoxPixel(t + 1)
       /\ (out_w = 0 \/ out_h = 0) => BoxEmpty(Geom(t + 1))
       /\ NoBoxPixel(t + 1) =>
            /\ pc' = "loop" /\ err' = err
            /\ t' = t + 1
            /\ out' = out
            /\ writes' = Append(writes, {})]_vars
\* the loop skipped two rows on a raster with four columns and no rows
C23_Witness ==
  /\ pc = "loop"
  /\ out_w = 4 /\ out_h = 0
  /\ t = 2 /\ NumTris = 2
  /\ writes = <<{}, {}>>

\* row k, rasterized on its own, selects pixel p (k is a row the loop has
\* consumed, so it raised nothing)
ScratchSelects(k, p) ==
  /\ ~Degenerate(Geom(k))
  /\ p \in BoxPixels(Geom(k))
  /\ Frag(Geom(k), p[1], p[2]).mask
\* pixel p of row k rasterized into a transparent buffer of its own
Scratch(k, p) == IF ScratchSelects(k, p) THEN SampleOf(k, p) ELSE Zero4
\* pixel p of the scratch buffers of rows 1..k laid over each other in
\* index order
RECURSIVE Composite(_, _)
Composite(k, p) ==
  IF k = 0 THEN Zero4
  ELSE IF ScratchSelects(k, p) THEN Scratch(k, p)
  ELSE Composite(k - 1, p)

\* C24: at every point of the loop the buffer equals the scratch buffers of
\* the rows consumed so far, each rasterized on its own, composited in index
\* order; so does the returned image.
C24_ScratchComposite ==
  /\ (pc \in {"loop", "rendered"}) =>
       /\ DOMAIN out = Pixels(out_w, out_h)
       /\ \A p \in DOMAIN out : out[p] = Composite(t, p)
  /\ pc = "rendered" =>
       /\ t = NumTris
       /\ \A p \in DOMAIN img.px : img.px[p] = ByteColour(out[p])
\* two rows painted a common pixel with different colours, the first of
\* them not transparent
C24_Witness ==
  /\ pc = "rendered"
  /\ Len(writes) = 2
  /\ \E p \in writes[1] \cap writes[2] :
       /\ Scratch(1, p) # Scratch(2, p)
       /\ Scratch(1, p)[4] # RInt(0)
       /\ Scratch(2, p)[4] # RInt(255)

\* C25: of two records that differ only in the z values of their
\* positions, rendered with the same texture, the second gets a raster of
\* the same size and the same image as the first.
C25_ZIgnored ==
  /\ (Len(saved) = 1 /\ pc \in {"loop", "rendered"}) =>
       (out_w = saved[1].img.w /\ out_h = saved[1].img.h)
  /\ (Len(saved) = 1 /\ pc = "rendered") => img = saved[1].img
  /\ Len(saved) = 2 => saved[1].img = saved[2].img
\* both images are saved, from records with different z values, and a
\* pixel is painted
C25_Witness ==
  /\ Len(saved) = 2
  /\ saved[1].jd # saved[2].jd
  /\ \E i \in DOMAIN mesh.pos : mesh.pos[i][3] # load_sprite_mesh(saved[1].jd).mesh.pos[i][3]
  /\ \E p \in DOMAIN saved[2].img.px : saved[2].img.px[p] # <<0, 0, 0, 0>>

\* every vertex UV of the mesh lies in [0, 1] x [0, 1]
UVsInUnitSquare ==
  \A i \in DOMAIN mesh.uv : \A c \in 1..2 : mesh.uv[i][c] \in 0..100

\* C26: for a mesh whose vertex UVs all lie in [0, 1] and a texture of at
\* least 1 x 1, every pixel a sampling iteration selects reads its four
\* texels at columns 0..tex_w-1 and rows 0..tex_h-1; x0t and y0t are never
\* negative.
C26_SlackReadsInBounds ==
  (pc = "loop" /\ tex_w >= 1 /\ tex_h >= 1 /\ UVsInUnitSquare) =>
    \A k \in NextRow : Samples(k) =>
      \A p \in BoxPixels(Geom(k)) :
        LET f == Frag(Geom(k), p[1], p[2])
        IN  f.mask =>
              /\ InTexture(f.x0t, f.y0t)
              /\ InTexture(f.x1t, f.y1t)

\* C27: every pixel a row has written lies in the raster: its column is in
\* 0..out_w-1 and its row in 0..out_h-1, and the buffer has exactly these
\* pixels.
C27_WritesInRaster ==
  allocated =>
    /\ DOMAIN out = (0..(out_w - 1)) \X (0..(out_h - 1))
    /\ \A k \in 1..Len(writes) : \A p \in writes[k] :
         /\ 0 <= p[1] /\ p[1] <= out_w - 1
         /\ 0 <= p[2] /\ p[2] <= out_h - 1
\* a row with a vertex on the right border and one on the bottom border
\* wrote the last pixel of the raster
C27_Witness ==
  /\ pc = "rendered"
  /\ \E k \in 1..Len(writes) :
       /\ \E j \in 1..3 : Corner(k, j)[1] = RInt(out_w)
       /\ \E j \in 1..3 : Corner(k, j)[2] = RInt(out_h)
       /\ <<out_w - 1, out_h - 1>> \in writes[k]

\* pixel p lies in the closed triangle of row k: no weight is negative
InClosedTriangle(k, p) == \A j \in 1..3 : RLe(RInt(0), AreaWeights(k, p)[j])
\* rows k and l have two vertices in common
ShareEdge(k, l) ==
  Cardinality({Tri(k)[j] : j \in 1..3} \cap {Tri(l)[j] : j \in 1..3}) = 2

\* C28: every raster pixel in the closed triangle of the row just consumed,
\* its vertices not collinear, lies in the row's expanded box and was written
\* by it; so of that row and an earlier such row sharing an edge with it,
\* every raster pixel in the union of the two closed triangles was written
\* by one of them.
C28_NoHolesNoSeams ==
  /\ \A k \in LastRow : ~Collinear(k) =>
       \A p \in DOMAIN out :
         InClosedTriangle(k, p) => (InExpandedBox(k, p) /\ p \in writes[k])
  /\ \A l \in LastRow : \A k \in 1..(l - 1) :
       (~Collinear(k) /\ ~Collinear(l) /\ ShareEdge(k, l)) =>
         \A p \in DOMAIN out :
           (InClosedTriangle(k, p) \/ InClosedTriangle(l, p)) =>
             p \in (writes[k] \cup writes[l])
\* two rows share an edge, and a pixel lying exactly on that edge is
\* written by both
C28_Witness ==
  /\ pc = "rendered"
  /\ Len(writes) = 2
  /\ ~Collinear(1) /\ ~Collinear(2) /\ ShareEdge(1, 2)
  /\ \E p \in writes[1] \cap writes[2] :
       /\ InClosedTriangle(1, p) /\ InClosedTriangle(2, p)
       /\ \E j \in 1..3 : AreaWeights(1, p)[j] = RInt(0)

\* rows k and l name the same three vertices, in any order
SameTriangle(k, l) ==
  /\ Cardinality({Tri(k)[j] : j \in 1..3}) = 3
  /\ {Tri(k)[j] : j \in 1..3} = {Tri(l)[j] : j \in 1..3}

\* C29: two consumed rows that list the same three non-collinear vertices,
\* in whatever order, wrote the same pixels, and each of these pixels has
\* the same interpolated UV and the same colour in both.
C29_VertexOrderIndependent ==
  \A k, l \in 1..Len(writes) : (k < l /\ SameTriangle(k, l) /\ ~Collinear(k)) =>
    /\ writes[k] = writes[l]
    /\ \A p \in writes[k] :
         LET f == Frag(Geom(k), p[1], p[2])
             g == Frag(Geom(l), p[1], p[2])
         IN  f.uvx = g.uvx /\ f.uvy = g.uvy /\ SampleOf(k, p) = SampleOf(l, p)
\* a triangle listed in both windings painted twice, with a pixel outside
\* the triangle within the slack
C29_Witness ==
  /\ pc = "rendered"
  /\ Len(writes) = 2
  /\ SameTriangle(1, 2)
  /\ Tri(2) = <<Tri(1)[1], Tri(1)[3], Tri(1)[2]>>
  /\ RLt(RMul(Geom(1).denom, Geom(2).denom), RInt(0))
  /\ \E p \in writes[2] : \E j \in 1..3 : RLt(AreaWeights(2, p)[j], RInt(0))

\* the four texels the fetch of lines 124-127 reads for f
TexelsRead(f) ==
  {TexAt(f.y0t, f.x0t), TexAt(f.y0t, f.x1t), TexAt(f.y1t, f.x0t), TexAt(f.y1t, f.x1t)}
\* every channel of the texture is in 0..255
EightBitTexture ==
  \A y \in 1..tex_h : \A x \in 1..tex_w : \A ch \in 1..4 :
    texture.px[y][x][ch] \in 0..255

\* C30: for every pixel a sampling iteration selects and fetches, wx and wy
\* lie in [0, 1) and each channel of the blend lies between the smallest and
\* the largest of the four texels read; when sx and sy are integers the
\* blend is the texel at row sy, column sx; and with a texture of channels
\* in 0..255 every buffer value is in 0..255, so the final clamp changes
\* nothing: the image holds the integer part of each value.
C30_BilinearConvex ==
  /\ pc = "loop" =>
       \A k \in NextRow : Samples(k) =>
         \A p \in BoxPixels(Geom(k)) :
           LET f == Frag(Geom(k), p[1], p[2])
           IN  (f.mask /\ TexelsInRange(f)) =>
                 /\ RLe(RInt(0), f.wx) /\ RLt(f.wx, RInt(1))
                 /\ RLe(RInt(0), f.wy) /\ RLt(f.wy, RInt(1))
                 /\ \A ch \in 1..4 :
                      /\ \E c \in TexelsRead(f) : RLe(c[ch], Bilinear(f)[ch])
                      /\ \E c \in TexelsRead(f) : RLe(Bilinear(f)[ch], c[ch])
                 /\ (f.sx_f[2] = 1 /\ f.sy_f[2] = 1) =>
                      Bilinear(f) = TexAt(f.sy_f[1], f.sx_f[1])
  /\ (pc \in {"loop", "rendered"} /\ EightBitTexture) =>
       \A p \in DOMAIN out : \A ch \in 1..4 :
         RLe(RInt(0), out[p][ch]) /\ RLe(out[p][ch], RInt(255))
  /\ (pc = "rendered" /\ EightBitTexture) =>
       \A p \in DOMAIN out : \A ch \in 1..4 : img.px[p][ch] = RFloor(out[p][ch])
\* a returned image with a pixel blended strictly between texels in both
\* directions, stored with its fraction cut off, and a pixel sampled exactly
\* on a texel
C30_Witness ==
  /\ pc = "rendered"
  /\ EightBitTexture
  /\ tex_w >= 2 /\ tex_h >= 2
  /\ \E k \in 1..Len(writes) : \E p \in writes[k] :
       LET f == Frag(Geom(k), p[1], p[2])
       IN  /\ f.wx # RInt(0) /\ f.wy # RInt(0)
           /\ Bilinear(f) \notin TexelsRead(f)
           /\ \E ch \in 1..4 : Bilinear(f)[ch][2] # 1
  /\ \E k \in 1..Len(writes) : \E p \in writes[k] :
       LET f == Frag(Geom(k), p[1], p[2])
       IN  f.wx = RInt(0) /\ f.wy = RInt(0)

====
